---- MODULE Spec2Model ----
(***************************************************************************)
(* The deployment declared by api/src/docker-compose.yml and               *)
(* api/src/Dockerfile: the application service sql-schema-parser and the   *)
(* reverse proxy nginx, run by Docker Compose on one Docker Engine.        *)
(*                                                                         *)
(* The two files are declarative.  Every constant below is a value one of  *)
(* them declares; every action is what the container runtime does with    *)
(* the keys the file sets (profiles, depends_on, ports, restart,           *)
(* healthcheck).  The image is taken as built: Init is the state in which  *)
(* `docker compose up` is about to create the containers.                  *)
(*                                                                         *)
(* Time is the number of seconds since the application container was last  *)
(* started.  Only its comparison with the start period matters, so it is   *)
(* tracked exactly up to TimeCap and saturates there, as does the failing  *)
(* streak at MaxStreak: a probe can always run, however long the container *)
(* has been up.                                                            *)
(***************************************************************************)
EXTENDS Integers, FiniteSets, Sequences

VARIABLES
    profile,         \* the active profiles of the deployment (COMPOSE_PROFILES)
    upPhase,         \* progress of `docker compose up`
    cstate,          \* container state of each service
    hc,              \* the application container's Config.Healthcheck
    health,          \* State.Health.Status of the application container
    failingStreak,   \* State.Health.FailingStreak
    probeAt,         \* seconds since container start at which the next probe starts
    lastProbe,       \* the newest entry of State.Health.Log
    listening,       \* uvicorn accepts connections on its port
    restartCount,    \* RestartCount of each container
    manuallyStopped, \* HasBeenManuallyStopped of each container
    bindings,        \* host port bindings: <<port, holder>>
    startError       \* State.Error of each container's last start

vars == <<profile, upPhase, cstate, hc, health, failingStreak, probeAt,
          lastProbe, listening, restartCount, manuallyStopped, bindings,
          startError>>

----------------------------------------------------------------------------
(* Bounds of the model *)

MaxRestarts == 2

TimeCap == 100

MaxStreak == 4

----------------------------------------------------------------------------
(* docker-compose.yml *)

App == "sql-schema-parser"

Nginx == "nginx"

Services == {App, Nginx}

\* services.nginx.profiles; the application service declares none
\* (variant: the proxy without a profile, enabled in every deployment)
NginxProfiles_Always == {}

NginxProfiles == {"production"}

Profiles(s) == IF s = Nginx THEN NginxProfiles ELSE {}

\* services.nginx.depends_on (short form: condition service_started)
\* (variants: no dependency declared; the long form with service_healthy)
NginxDependsOn_None == {}

NginxDependsOn == {App}

DependsOn(s) == IF s = Nginx THEN NginxDependsOn ELSE {}

DependsOnCondition_Healthy == "service_healthy"

DependsOnCondition == "service_started"

\* services.*.ports, "HOST:CONTAINER"
\* (variant: the proxy published on the application's host port)
AppHostPort == 8000

NginxHostPort_Clash == AppHostPort

NginxHostPort == 80

HostPort(s) == IF s = Nginx THEN NginxHostPort ELSE AppHostPort

HostPorts == {HostPort(s) : s \in Services}

\* services.*.restart (variant: no restart policy)
RestartPolicy_No == "no"

RestartPolicy == "unless-stopped"

\* services.sql-schema-parser.healthcheck
\* (variants: a probe URL on another port, half the interval, the timeout
\* left out, one retry fewer)
ComposeProbePort_Wrong == 8000 + 80

ComposeProbePort == 8000

ComposeProbePath == "/v1/health"

ComposeInterval_Halved == 30 \div 2

ComposeInterval == 30

ComposeTimeout_Unset == 10 - 10

ComposeTimeout == 10

ComposeRetries_Two == 3 - 1

ComposeRetries == 3

ComposeStartPeriod == 40

ComposeHC ==
    [test        |-> <<ComposeProbePort, ComposeProbePath>>,
     interval    |-> ComposeInterval,
     timeout     |-> ComposeTimeout,
     retries     |-> ComposeRetries,
     startPeriod |-> ComposeStartPeriod]

----------------------------------------------------------------------------
(* Dockerfile *)

\* EXPOSE 8000
ExposedPort == 8000

\* CMD ["uvicorn", "main:app", "--host", "0.0.0.0", "--port", "8000"]
ListenPort == 8000

\* HEALTHCHECK --interval=30s --timeout=30s --start-period=5s --retries=3
\*     CMD curl -f http://localhost:8000/v1/health || exit 1
ImageProbePort == 8000

ImageProbePath == "/v1/health"

ImageInterval == 30

ImageTimeout == 30

ImageRetries == 3

ImageStartPeriod == 5

ImageHC ==
    [test        |-> <<ImageProbePort, ImageProbePath>>,
     interval    |-> ImageInterval,
     timeout     |-> ImageTimeout,
     retries     |-> ImageRetries,
     startPeriod |-> ImageStartPeriod]

----------------------------------------------------------------------------
(* main:app, the application the image runs.  Its source is not among the  *)
(* files; the route and its latency are taken from the specification       *)
(* ("GET /v1/health", "a fast (sub-second), idempotent status check").     *)

HealthRoute == "/v1/health"

HealthLatency == 1

----------------------------------------------------------------------------
(* The container's effective health check.  A field the service definition *)
(* leaves unset (zero, or an empty test) is inherited from the image, field *)
(* by field.                                                               *)

NoHC == [test |-> <<>>, interval |-> 0, timeout |-> 0, retries |-> 0, startPeriod |-> 0]

Merge(user, image) ==
    [test        |-> IF Len(user.test) = 0 THEN image.test ELSE user.test,
     interval    |-> IF user.interval = 0 THEN image.interval ELSE user.interval,
     timeout     |-> IF user.timeout = 0 THEN image.timeout ELSE user.timeout,
     retries     |-> IF user.retries = 0 THEN image.retries ELSE user.retries,
     startPeriod |-> IF user.startPeriod = 0 THEN image.startPeriod ELSE user.startPeriod]

EffectiveHC == Merge(ComposeHC, ImageHC)

Sat(t) == IF t > TimeCap THEN TimeCap ELSE t

----------------------------------------------------------------------------
(* State *)

Enabled == {s \in Services : Profiles(s) = {} \/ Profiles(s) \cap profile # {}}

Created == {s \in Services : cstate[s] # "absent"}

Started == {s \in Services : cstate[s] \in {"running", "restarting", "exited"}}

NoProbe == [start |-> 0, ok |-> FALSE, listening |-> FALSE, counted |-> FALSE]

Holders(p) == {b[2] : b \in {x \in bindings : x[1] = p}}

Init ==
    /\ profile \in {{}, {"production"}}
    /\ upPhase = "creating"
    /\ cstate = [s \in Services |-> "absent"]
    /\ hc = NoHC
    /\ health = "none"
    /\ failingStreak = 0
    /\ probeAt = 0
    /\ lastProbe = NoProbe
    /\ listening = FALSE
    /\ restartCount = [s \in Services |-> 0]
    /\ manuallyStopped = [s \in Services |-> FALSE]
    /\ bindings = {}
    /\ startError = [s \in Services |-> "none"]

----------------------------------------------------------------------------
(* Starting a container.  The host port is bound when the container starts, *)
(* not when it is created.  If the port is held, the start fails: the       *)
(* container does not run, State.Error records why, and nothing else        *)
(* changes.  The engine tells a port held by another container ("port is    *)
(* already allocated") from one held by a host process ("address already    *)
(* in use").  A started application container begins a new health record:   *)
(* status starting, streak zero, first probe one interval after the start.  *)

PortError(p) ==
    IF Holders(p) = {} THEN "none"
    ELSE IF Holders(p) \cap Services # {} THEN "port is already allocated"
    ELSE "address already in use"

StartFails(s) == PortError(HostPort(s)) # "none"

DoStart(s) ==
    IF StartFails(s)
    THEN /\ startError' = [startError EXCEPT ![s] = PortError(HostPort(s))]
         /\ cstate' = [cstate EXCEPT ![s] = IF @ = "created" THEN "created" ELSE "exited"]
         /\ UNCHANGED <<bindings, health, failingStreak, probeAt, lastProbe,
                        listening, manuallyStopped>>
    ELSE /\ startError' = [startError EXCEPT ![s] = "none"]
         /\ cstate' = [cstate EXCEPT ![s] = "running"]
         /\ bindings' = bindings \cup {<<HostPort(s), s>>}
         /\ manuallyStopped' = [manuallyStopped EXCEPT ![s] = FALSE]
         /\ IF s = App
            THEN /\ health' = "starting"
                 /\ failingStreak' = 0
                 /\ probeAt' = Sat(hc.interval)
                 /\ lastProbe' = NoProbe
                 /\ listening' = FALSE
            ELSE UNCHANGED <<health, failingStreak, probeAt, lastProbe, listening>>

\* The container stops running: its port is released and its health monitor ends.
DoStop(s) ==
    /\ bindings' = bindings \ {<<HostPort(s), s>>}
    /\ IF s = App
       THEN /\ health' = "none"
            /\ failingStreak' = 0
            /\ probeAt' = 0
            /\ lastProbe' = NoProbe
            /\ listening' = FALSE
       ELSE UNCHANGED <<health, failingStreak, probeAt, lastProbe, listening>>

----------------------------------------------------------------------------
(* docker compose up: create the enabled services' containers, each after   *)
(* the services it depends on, then start them, each after the services it  *)
(* depends on have been started (condition service_started).  Services that *)
(* do not depend on one another are handled in no fixed order.  A failed    *)
(* start aborts the command with the error.                                 *)

Create(s) ==
    /\ upPhase = "creating"
    /\ s \in Enabled
    /\ cstate[s] = "absent"
    /\ (DependsOn(s) \cap Enabled) \subseteq Created
    /\ cstate' = [cstate EXCEPT ![s] = "created"]
    /\ hc' = IF s = App THEN EffectiveHC ELSE hc
    /\ upPhase' = IF Enabled \subseteq (Created \cup {s}) THEN "starting" ELSE "creating"
    /\ UNCHANGED <<profile, health, failingStreak, probeAt, lastProbe, listening,
                   restartCount, manuallyStopped, bindings, startError>>

DependencyReady(d) ==
    /\ d \in Started
    /\ (DependsOnCondition = "service_healthy" /\ d = App) => health = "healthy"

Start(s) ==
    /\ upPhase = "starting"
    /\ s \in Enabled
    /\ cstate[s] = "created"
    /\ \A d \in DependsOn(s) \cap Enabled : DependencyReady(d)
    /\ DoStart(s)
    /\ upPhase' = IF StartFails(s) THEN "failed"
                  ELSE IF Enabled \subseteq (Started \cup {s}) THEN "done"
                  ELSE "starting"
    /\ UNCHANGED <<profile, hc, restartCount>>

----------------------------------------------------------------------------
(* The health monitor of the application container.  A probe runs curl -f   *)
(* against the declared URL inside the container; it succeeds when the      *)
(* process accepts the connection on that port, serves that route, and      *)
(* answers within the timeout.  Success: streak 0, status healthy.          *)
(* Failure: the streak grows unless the status is still starting and the    *)
(* probe began within the start period; when it reaches the retry count     *)
(* the status becomes unhealthy.  The next probe starts one interval after  *)
(* this one ended; the file sets no start_interval, so the same interval    *)
(* applies within the start period.  The monitor only reports: it does not  *)
(* stop or restart the container.                                           *)

ProbeReaches == listening /\ hc.test[1] = ListenPort /\ hc.test[2] = HealthRoute

ProbeOK == ProbeReaches /\ HealthLatency < hc.timeout

ProbeDuration ==
    IF ProbeReaches
    THEN (IF HealthLatency < hc.timeout THEN HealthLatency ELSE hc.timeout)
    ELSE 0

ShouldIncrementStreak(status, at) == ~(status = "starting" /\ at < hc.startPeriod)

\* (variant: a success that leaves the streak as it was)
StreakAfter_NoReset(ok, status, at, streak) ==
    IF ok \/ ~ShouldIncrementStreak(status, at) THEN streak
    ELSE IF streak < MaxStreak THEN streak + 1 ELSE MaxStreak

StreakAfter(ok, status, at, streak) ==
    IF ok THEN 0
    ELSE IF ~ShouldIncrementStreak(status, at) THEN streak
    ELSE IF streak < MaxStreak THEN streak + 1 ELSE MaxStreak

StatusAfter(ok, status, at, streak) ==
    IF ok THEN "healthy"
    ELSE IF ShouldIncrementStreak(status, at) /\ StreakAfter(ok, status, at, streak) >= hc.retries
         THEN "unhealthy"
         ELSE status

Probe ==
    /\ cstate[App] = "running"
    /\ Len(hc.test) > 0
    /\ failingStreak' = StreakAfter(ProbeOK, health, probeAt, failingStreak)
    /\ health' = StatusAfter(ProbeOK, health, probeAt, failingStreak)
    /\ lastProbe' = [start |-> probeAt, ok |-> ProbeOK, listening |-> listening,
                     counted |-> ~ProbeOK /\ ShouldIncrementStreak(health, probeAt)]
    /\ probeAt' = Sat(probeAt + ProbeDuration + hc.interval)
    /\ UNCHANGED <<profile, upPhase, cstate, hc, listening, restartCount,
                   manuallyStopped, bindings, startError>>

----------------------------------------------------------------------------
(* The restart policy.  It acts when a container's main process exits: the  *)
(* engine counts a restart and puts the container in state restarting,      *)
(* unless the policy is "no" or the container was stopped by hand; it then  *)
(* starts it again.  A restart whose start fails leaves the container       *)
(* exited.                                                                  *)

ShouldRestart(s) == RestartPolicy \in {"always", "unless-stopped"} /\ ~manuallyStopped[s]

ProcessExit(s) ==
    /\ cstate[s] = "running"
    /\ restartCount[s] < MaxRestarts
    /\ DoStop(s)
    /\ IF ShouldRestart(s)
       THEN /\ cstate' = [cstate EXCEPT ![s] = "restarting"]
            /\ restartCount' = [restartCount EXCEPT ![s] = @ + 1]
       ELSE /\ cstate' = [cstate EXCEPT ![s] = "exited"]
            /\ UNCHANGED restartCount
    /\ UNCHANGED <<profile, upPhase, hc, manuallyStopped, startError>>

Restart(s) ==
    /\ cstate[s] = "restarting"
    /\ DoStart(s)
    /\ UNCHANGED <<profile, upPhase, hc, restartCount>>

----------------------------------------------------------------------------
(* The operator and the host *)

\* docker stop
OperatorStop(s) ==
    /\ cstate[s] \in {"running", "restarting"}
    /\ DoStop(s)
    /\ cstate' = [cstate EXCEPT ![s] = "exited"]
    /\ manuallyStopped' = [manuallyStopped EXCEPT ![s] = TRUE]
    /\ UNCHANGED <<profile, upPhase, hc, restartCount, startError>>

\* docker start
OperatorStart(s) ==
    /\ cstate[s] = "exited"
    /\ DoStart(s)
    /\ UNCHANGED <<profile, upPhase, hc, restartCount>>

\* another process of the host takes, or gives up, a free host port
HostBind(p) ==
    /\ Holders(p) = {}
    /\ bindings' = bindings \cup {<<p, "host">>}
    /\ UNCHANGED <<profile, upPhase, cstate, hc, health, failingStreak, probeAt,
                   lastProbe, listening, restartCount, manuallyStopped, startError>>

HostRelease(p) ==
    /\ <<p, "host">> \in bindings
    /\ bindings' = bindings \ {<<p, "host">>}
    /\ UNCHANGED <<profile, upPhase, cstate, hc, health, failingStreak, probeAt,
                   lastProbe, listening, restartCount, manuallyStopped, startError>>

\* uvicorn begins, or ceases, to accept connections
AppListens ==
    /\ cstate[App] = "running"
    /\ ~listening
    /\ listening' = TRUE
    /\ UNCHANGED <<profile, upPhase, cstate, hc, health, failingStreak, probeAt,
                   lastProbe, restartCount, manuallyStopped, bindings, startError>>

AppStopsListening ==
    /\ cstate[App] = "running"
    /\ listening
    /\ listening' = FALSE
    /\ UNCHANGED <<profile, upPhase, cstate, hc, health, failingStreak, probeAt,
                   lastProbe, restartCount, manuallyStopped, bindings, startError>>

----------------------------------------------------------------------------

Next ==
    \/ \E s \in Services : Create(s)
    \/ \E s \in Services : Start(s)
    \/ Probe
    \/ \E s \in Services : ProcessExit(s)
    \/ \E s \in Services : Restart(s)
    \/ \E s \in Services : OperatorStop(s)
    \/ \E s \in Services : OperatorStart(s)
    \/ \E p \in HostPorts : HostBind(p)
    \/ \E p \in HostPorts : HostRelease(p)
    \/ AppListens
    \/ AppStopsListening

Spec == Init /\ [][Next]_vars

\* The runtime's own steps are taken when they can be: compose up runs to its
\* end, the monitor probes on schedule, a pending restart is carried out.  The
\* operator, the host and the application process are under no obligation.
FairSpec ==
    /\ Spec
    /\ \A s \in Services : WF_vars(Create(s)) /\ WF_vars(Start(s)) /\ WF_vars(Restart(s))
    /\ WF_vars(Probe)

----------------------------------------------------------------------------
(* Properties *)

Probed == lastProbe # NoProbe

AfterGrace == Probed /\ lastProbe.start >= hc.startPeriod

\* C1: profile gating.  With no profile set the proxy container is never
\* created and, once compose up has ended, the created containers are exactly
\* {sql-schema-parser}; with profile "production" both containers are
\* eventually created, and nginx is created only after sql-schema-parser.
C1_ProfileGating ==
    /\ [](profile = {} => Created \subseteq {App})
    /\ []((profile = {} /\ upPhase = "done") => Created = {App})
    /\ [](Nginx \in Created => App \in Created)
    /\ ((profile = {"production"}) ~> (Created = {App, Nginx}))

C1_Witness == profile = {"production"} /\ Created = {App, Nginx}

\* C2: start ordering.  The proxy has never been started in a state in which
\* the application service container has not been created (and started).
C2_StartOrdering == Nginx \in Started => (App \in Created /\ App \in Started)

C2_Witness == cstate[Nginx] = "running" /\ App \in Created

C5_HealthReflectsAvailability ==
    /\ ListenPort = 8000 /\ ExposedPort = ListenPort
    /\ AfterGrace => (lastProbe.ok <=> lastProbe.listening)

C5_Witness == AfterGrace /\ lastProbe.ok /\ lastProbe.listening

\* C6: a probe failure within the start period is never counted: it leaves the
\* failing streak and the health status as they were, and the instance is
\* unhealthy only after a probe that ran once the start period was over.
C6_GracePeriod ==
    /\ []((Probed /\ lastProbe.start < hc.startPeriod) => ~lastProbe.counted)
    /\ [](health = "unhealthy" => AfterGrace)
    /\ [][(Probed' /\ lastProbe' # lastProbe /\ ~lastProbe'.ok
             /\ lastProbe'.start < hc.startPeriod)
            => (failingStreak' = failingStreak /\ health' = health)]_vars

C6_Witness ==
    /\ Probed
    /\ lastProbe.start < 40
    /\ ~lastProbe.ok
    /\ failingStreak = 0
    /\ health = "starting"

\* C7: the image-level and the orchestration-level health checks differ, and
\* the container's health check is one of them whole, never a mixture; the
\* first probe time, the probe's verdict against the timeout and the
\* unhealthy decision all use that one policy's values.
C7_OnePolicy ==
    /\ ComposeHC # ImageHC
    /\ App \in Created => hc \in {ComposeHC, ImageHC}
    /\ (cstate[App] = "running" /\ ~Probed) => probeAt = hc.interval
    /\ (Probed /\ lastProbe.listening) => (lastProbe.ok <=> HealthLatency < hc.timeout)
    /\ health = "unhealthy" => (failingStreak >= hc.retries /\ lastProbe.start >= hc.startPeriod)

C7_Witness ==
    /\ hc = ComposeHC
    /\ hc.interval = 30 /\ hc.timeout = 10 /\ hc.retries = 3 /\ hc.startPeriod = 40
    /\ health = "unhealthy"

OrchestratorView == IF cstate[App] = "running" THEN health ELSE cstate[App]

C9_NoHealthGate ==
    (upPhase = "starting" /\ Nginx \in Enabled /\ cstate[Nginx] = "created" /\ App \in Started)
        => ENABLED Start(Nginx)

C9_Witness ==
    /\ cstate[Nginx] = "running"
    /\ cstate[App] = "running"
    /\ health = "starting"

\* C10: a host port has at most one holder, and a container holds only its own
\* port (8000 the application, 80 the proxy), which it holds exactly while it
\* runs.  The two services never take each other's port.  A start that finds
\* the port held fails: the container does not run and is not queued for a
\* restart, the bindings, the other container and the restart counts are as
\* before, and the error stands in the container's state.
C10_PortOwnership ==
    /\ [](\A p \in HostPorts : Cardinality(Holders(p)) <= 1)
    /\ [](Holders(8000) \subseteq {App, "host"} /\ Holders(80) \subseteq {Nginx, "host"})
    /\ [](\A s \in Services : cstate[s] = "running" <=> s \in Holders(HostPort(s)))
    /\ [](\A s \in Services : startError[s] # "port is already allocated")
    /\ [](\A s \in Services : startError[s] # "none" => cstate[s] \in {"created", "exited"})
    /\ []((\E s \in Services : startError[s] # "none" /\ cstate[s] = "created")
            => upPhase = "failed")
    /\ [][\A s \in Services :
            (startError'[s] # "none" /\ startError'[s] # startError[s])
              => /\ bindings' = bindings
                 /\ cstate'[s] \in {"created", "exited"}
                 /\ \A t \in Services \ {s} : cstate'[t] = cstate[t]
                 /\ restartCount' = restartCount]_vars

C10_Witness ==
    /\ startError[App] = "address already in use"
    /\ <<8000, "host">> \in bindings
    /\ cstate[App] = "created"
    /\ upPhase = "failed"

====
